---- MODULE Spec2Model ----
(***************************************************************************)
(* TestSubscriber of rxjs-testing (src/src/testsubscriber.ts): a recording *)
(* subscriber with a demand limit, an optional delegate, assertion helpers *)
(* and a promise-based wait for the terminal notification.                 *)
(*                                                                         *)
(* An instance is a record holding the fields of the class under their     *)
(* source names, the promise objects it has created (promises) and the     *)
(* calls its delegate has received (delegateCalls), and what the last call *)
(* made on it threw (thrown).  Every method is an operator from instance   *)
(* to instance; the actions apply them.                                    *)
(*                                                                         *)
(* TestObserver (src/src/testobserver.ts), a logging observer that holds   *)
(* at most one Subscription and can be disposed, is modelled the same way. *)
(*                                                                         *)
(* The log operator (src/src/operators/logoperator.ts) keeps three module  *)
(* variables across all its pipelines; they are the record globals.        *)
(***************************************************************************)
EXTENDS Integers, Sequences, FiniteSets, TLC

VARIABLES
    sub,        \* the TestSubscriber under test
    waiters,    \* the awaitTerminalEvent() call the test is awaiting, if any (a sequence
                \*        of at most one race; a finished one makes room for the next)
    now,        \* Date.now(), the clock the timers run on
    calls,      \* number of state-changing calls made so far (on sub: next, error,
                \*        complete, reset, unsubscribe)
    lastCall,   \* ghost: the last method called on sub, with its arguments
    history,    \* ghost: the next/error/complete calls since the last reset/unsubscribe
    mark,       \* ghost: Len(sub.delegateCalls) at the last reset/unsubscribe
    fresh,      \* ghost: an instance constructed at the last reset/unsubscribe with the
                \*        same delegate and limit, given the same calls since
    obs,        \* the TestObserver under test
    view,       \* the array reference the caller has kept from a getLogs() call, if any
    logged,     \* ghost: the log entries the calls on obs have appended, in order
    lastObserverCall,   \* ghost: the last method called on obs, with its arguments
    globals,    \* the module variables of the log operator
    piped       \* the subscriptions made through log(...) pipelines

subscriberVars == <<sub, waiters, now, lastCall, history, mark, fresh>>
observerVars == <<obs, view, logged, lastObserverCall>>
operatorVars == <<globals, piped>>
vars == <<sub, waiters, now, calls, lastCall, history, mark, fresh,
          obs, view, logged, lastObserverCall, globals, piped>>

\* ---------------------------------------------------------------- bounds
MaxCalls == 3
MaxTime == 1

MaxLimit == MaxCalls - 1
MaxTimeout == MaxTime

\* ---------------------------------------------------------------- inputs
\* JavaScript values, written as their source literals.
Values == {"1", "NaN"}
Causes == {"err"}
ExpectedValues == Values
Delegates == {"undefined", "observer", "throwing observer"}

\* JavaScript numbers as far as initialRequest needs them.
Num(k) == [kind |-> "int", n |-> k]
POSITIVE_INFINITY == [kind |-> "Infinity", n |-> 0]
Limits == {Num(k) : k \in 0..MaxLimit} \cup {POSITIVE_INFINITY}

\* numbers that are no count: a negative one, and NaN
NaN == [kind |-> "NaN", n |-> 0]
InvalidLimits == {Num(0 - 1), NaN}

\* a < b for a length a and a JavaScript number b
LessThan(a, b) ==
    CASE b.kind = "Infinity" -> TRUE
      [] b.kind = "int" -> a < b.n
      [] OTHER -> FALSE

\* ---------------------------------------------------------------- errors
NoError == [message |-> "", n |-> 0, m |-> 0]
Error(message, n, m) == [message |-> message, n |-> n, m |-> m]
DelegateError == Error("delegate handler threw", 0, 0)

\* `Timestamp-${Date.now()}`; the field starts as the empty string
NoTimestamp == [prefix |-> "", ms |-> 0]
Timestamp(t) == [prefix |-> "Timestamp-", ms |-> t]

\* The resolve function of promise k, and the `() => {}` that replaces it.
Resolve(k) == [fn |-> "resolve", promise |-> k]
Noop == [fn |-> "noop", promise |-> 0]

\* ---------------------------------------------------------------- construction
initializeTerminalEventPromise(s) ==
    [s EXCEPT !.promises = Append(@, "pending"),
              !.terminalEventPromise = Len(s.promises) + 1,
              !.terminalEventResolver = Resolve(Len(s.promises) + 1)]

\* new TestSubscriber(delegate, initialRequest); received is what the delegate
\* has been sent before.
New(delegate, initialRequest, received) ==
    initializeTerminalEventPromise(
        [delegate |-> delegate,
         onNextEvents |-> <<>>,
         initialRequest |-> initialRequest,
         errorEvents |-> <<>>,
         completions |-> 0,
         terminalEventReceived |-> FALSE,
         lastEventTimestamp |-> NoTimestamp,
         promises |-> <<>>,
         terminalEventPromise |-> 0,
         terminalEventResolver |-> Noop,
         isUnsubscribed |-> FALSE,
         delegateCalls |-> received,
         thrown |-> NoError])

\* ---------------------------------------------------------------- control flow
\* A call starts with nothing thrown.
Enter(s) == [s EXCEPT !.thrown = NoError]

\* this.delegate?.next(value) / .error(err) / .complete(): nothing without a
\* delegate; a throwing delegate's handler is entered and throws.
deliver(s, kind, arg) ==
    IF s.delegate = "undefined"
    THEN s
    ELSE [s EXCEPT !.delegateCalls = Append(@, [kind |-> kind, arg |-> arg]),
                   !.thrown = IF s.delegate = "throwing observer"
                              THEN DelegateError ELSE NoError]

\* try { deliver } catch (e) { this.log(ERROR, ...) }
tryDeliver_uncaught(s, kind, arg) == deliver(s, kind, arg)
tryDeliver(s, kind, arg) == [deliver(s, kind, arg) EXCEPT !.thrown = NoError]

\* if (this.terminalEventResolver) { this.terminalEventResolver();
\*                                   this.terminalEventResolver = () => {}; }
\* the statement that follows the try/catch: not reached if an exception is
\* on its way out.
resolveTerminalEvent_keepsResolver(s) ==
    LET r == s.terminalEventResolver
    IN IF s.thrown # NoError
       THEN s
       ELSE [s EXCEPT !.promises = IF r.fn = "resolve"
                                   THEN [@ EXCEPT ![r.promise] = "fulfilled"] ELSE @]
resolveTerminalEvent(s) ==
    LET r == s.terminalEventResolver
    IN IF s.thrown # NoError
       THEN s
       ELSE [s EXCEPT !.promises = IF r.fn = "resolve"
                                   THEN [@ EXCEPT ![r.promise] = "fulfilled"] ELSE @,
                      !.terminalEventResolver = Noop]

\* ---------------------------------------------------------------- handlers
onNext(s, value, t) ==
    LET pushed == [s EXCEPT !.onNextEvents = Append(@, value),
                            !.lastEventTimestamp = Timestamp(t)]
    IN tryDeliver(pushed, "next", value)

onError_flagless(s, error, t) ==
    LET recorded == [s EXCEPT !.errorEvents = Append(@, error),
                              !.lastEventTimestamp = Timestamp(t)]
    IN resolveTerminalEvent(tryDeliver(recorded, "error", error))
onError(s, error, t) ==
    LET recorded == [s EXCEPT !.errorEvents = Append(@, error),
                              !.terminalEventReceived = TRUE,
                              !.lastEventTimestamp = Timestamp(t)]
    IN resolveTerminalEvent(tryDeliver(recorded, "error", error))

onCompleted(s, t) ==
    LET recorded == [s EXCEPT !.completions = @ + 1,
                              !.terminalEventReceived = TRUE,
                              !.lastEventTimestamp = Timestamp(t)]
    IN resolveTerminalEvent(tryDeliver(recorded, "complete", ""))

next_unchecked(s, value, t) == onNext(Enter(s), value, t)
next_inclusive(s, value, t) ==
    IF LessThan(Len(s.onNextEvents) - 1, s.initialRequest)
    THEN onNext(Enter(s), value, t)
    ELSE Enter(s)
next(s, value, t) ==
    IF LessThan(Len(s.onNextEvents), s.initialRequest)
    THEN onNext(Enter(s), value, t)
    ELSE Enter(s)

error_limited(s, err, t) ==
    IF LessThan(Len(s.onNextEvents), s.initialRequest)
    THEN onError(Enter(s), err, t)
    ELSE Enter(s)
error(s, err, t) == onError(Enter(s), err, t)

complete(s, t) == onCompleted(Enter(s), t)

reset_keepsCompletions(s) ==
    initializeTerminalEventPromise(
        [Enter(s) EXCEPT !.onNextEvents = <<>>,
                         !.errorEvents = <<>>,
                         !.terminalEventReceived = FALSE,
                         !.lastEventTimestamp = NoTimestamp])
reset(s) ==
    initializeTerminalEventPromise(
        [Enter(s) EXCEPT !.onNextEvents = <<>>,
                         !.errorEvents = <<>>,
                         !.completions = 0,
                         !.terminalEventReceived = FALSE,
                         !.lastEventTimestamp = NoTimestamp])

\* super.unsubscribe() sets the base Subscriber's flag; then this.reset()
unsubscribe_flagOnly(s) == [Enter(s) EXCEPT !.isUnsubscribed = TRUE]
unsubscribe(s) == reset([s EXCEPT !.isUnsubscribed = TRUE])

\* ---------------------------------------------------------------- assertions
\* JSON.stringify on the values above: NaN is written as null, and undefined
\* has no JSON text (the call returns undefined).
JSONstringify(v) ==
    CASE v = "NaN" -> "null"
      [] v = "undefined" -> "(undefined)"
      [] OTHER -> v

\* a === b on the values above: NaN equals nothing, itself included
isEqual_strict(a, b) == a = b /\ a # "NaN"
isEqual(a, b) == JSONstringify(a) = JSONstringify(b)

\* this.log(ERROR, message); throw new Error(message)
fail(s, message) == [s EXCEPT !.thrown = message]

assertCompleted_atLeastOne(s) ==
    IF s.completions < 1
    THEN fail(Enter(s), Error("Expected exactly 1 completion event, but received",
                              s.completions, 0))
    ELSE Enter(s)
assertCompleted(s) ==
    IF s.completions # 1
    THEN fail(Enter(s), Error("Expected exactly 1 completion event, but received",
                              s.completions, 0))
    ELSE Enter(s)

assertNoErrors_many(s) ==
    IF Len(s.errorEvents) > 1
    THEN fail(Enter(s), Error("Expected no errors, but received", Len(s.errorEvents), 0))
    ELSE Enter(s)
assertNoErrors(s) ==
    IF Len(s.errorEvents) > 0
    THEN fail(Enter(s), Error("Expected no errors, but received", Len(s.errorEvents), 0))
    ELSE Enter(s)

\* expected.forEach stops at the first index whose callback throws
assertValues(s, expected) ==
    LET differ == {i \in 1..Len(expected) : ~isEqual(s.onNextEvents[i], expected[i])}
        first == CHOOSE i \in differ : \A j \in differ : i <= j
    IN IF Len(s.onNextEvents) # Len(expected)
       THEN fail(Enter(s), Error("Expected values, but received",
                                 Len(expected), Len(s.onNextEvents)))
       ELSE IF differ # {}
            THEN fail(Enter(s), Error("Value mismatch at index", first - 1, 0))
            ELSE Enter(s)

\* ---------------------------------------------------------------- waiting
TimeoutError == Error("Timeout waiting for terminal event", 0, 0)

\* One awaitTerminalEvent() call: Promise.race([this.terminalEventPromise,
\* sleep(timeoutMs).then(() => this.fail(...))]).  The call leaves the instance
\* as it is and yields the race: the promise raced, the timer set at time t,
\* and how the race has settled.
awaitTerminalEvent_ownPromise(s, timeoutMs, t) ==
    LET renewed == initializeTerminalEventPromise(s)
    IN [instance |-> renewed,
        race |-> [promise |-> renewed.terminalEventPromise, status |-> "pending",
                  timer |-> "armed", deadline |-> t + timeoutMs, reason |-> NoError]]
awaitTerminalEvent(s, timeoutMs, t) ==
    [instance |-> s,
     race |-> [promise |-> s.terminalEventPromise, status |-> "pending",
               timer |-> "armed", deadline |-> t + timeoutMs, reason |-> NoError]]

\* The reaction of a race to its fulfilled promise is a queued microtask.
ReactionQueued(w) == w.status = "pending" /\ sub.promises[w.promise] = "fulfilled"
MicrotasksPending == \E i \in 1..Len(waiters) : ReactionQueued(waiters[i])

\* The timer's callback: sleep resolves, the then-callback calls this.fail,
\* whose throw rejects the race unless the race has settled.
timeout_resolves(s, w) ==
    [instance |-> s,
     race |-> [w EXCEPT !.timer = "fired",
                        !.status = IF w.status = "pending" THEN "fulfilled" ELSE @]]
timeout(s, w) ==
    LET failed == fail(s, TimeoutError)
    IN [instance |-> [failed EXCEPT !.thrown = s.thrown],
        race |-> [w EXCEPT !.timer = "fired",
                           !.status = IF w.status = "pending" THEN "rejected" ELSE @,
                           !.reason = IF w.status = "pending" THEN failed.thrown ELSE @]]

\* ---------------------------------------------------------------- calls
\* a notification (kind, payload); a method call (name, arguments)
Call(kind, arg) == [kind |-> kind, arg |-> arg]
Called(op, args) == [op |-> op, args |-> args]
IsTerminal(c) == c.kind \in {"error", "complete"}

\* ---------------------------------------------------------------- TestObserver
\* The delegates of a TestObserver: none, a plain Observer (next, error,
\* complete), a DelegateObserver defining onSubscribe and onSuccess as well,
\* and one whose five handlers all throw.
ObserverDelegates == {"undefined", "observer", "delegate observer", "throwing observer"}
Handlers(d) ==
    CASE d = "undefined" -> {}
      [] d = "observer" -> {"next", "error", "complete"}
      [] OTHER -> {"next", "error", "complete", "onSubscribe", "onSuccess"}

\* The values notified: the number 1 and the string '1'.
ObservedValues == {"1", "'1'"}

\* `${value}` in a template literal: a string contributes its characters
String(v) == IF v = "'1'" THEN "1" ELSE v

\* a log message: its fixed text and the payload written after it
Entry(text, payload) == [text |-> text, payload |-> payload]

\* subscription: Subscription | null; a Subscription is named by its position
\* among the subscriptions created
NoSubscription == 0
NoArray == 0

\* what a call returns
Undefined == [kind |-> "undefined", ref |-> 0]
This == [kind |-> "this", ref |-> 0]
ArrayRef(a) == [kind |-> "array", ref |-> a]
SubscriptionRef(h) == [kind |-> "Subscription", ref |-> h]
Boolean(b) == [kind |-> "boolean", ref |-> IF b THEN 1 ELSE 0]

\* new Subscription(); unsubscribed counts the unsubscribe() calls it has had
OpenSubscription == [closed |-> FALSE, unsubscribed |-> 0]

\* TestObserver.create(delegate).  arrays holds the array objects, and logs
\* the reference to the one array that `logs` is initialised with.
create(delegate) ==
    [subscription |-> NoSubscription,
     disposed |-> FALSE,
     delegate |-> delegate,
     logs |-> 1,
     arrays |-> << <<>> >>,
     subscriptions |-> <<>>,
     delegateCalls |-> <<>>,
     returned |-> Undefined,
     thrown |-> NoError]

\* A call starts with nothing thrown and nothing returned.
Begin(o) == [o EXCEPT !.thrown = NoError, !.returned = Undefined]

Logs(o) == o.arrays[o.logs]

getLogs(o) == [Begin(o) EXCEPT !.returned = ArrayRef(o.logs)]

logEvent(o, message) ==
    [o EXCEPT !.arrays[o.logs] = Append(@, message)]

\* if (this.delegate && this.delegate.h) { this.delegate.h(arg); }
forward(o, handler, arg) ==
    IF handler \in Handlers(o.delegate)
    THEN [o EXCEPT !.delegateCalls = Append(@, [kind |-> handler, arg |-> arg]),
                   !.thrown = IF o.delegate = "throwing observer"
                              THEN DelegateError ELSE NoError]
    ELSE o

assertSubscribed(o) ==
    IF o.subscription = NoSubscription
    THEN [Begin(o) EXCEPT !.thrown = Error("onSubscribe was not called exactly once.", 0, 0)]
    ELSE [Begin(o) EXCEPT !.returned = This]

\* subscription.unsubscribe()
cancel(o, h) ==
    [o EXCEPT !.subscriptions[h] = [closed |-> TRUE, unsubscribed |-> @.unsubscribed + 1]]

dispose_clearing(o) ==
    LET marked == [Begin(o) EXCEPT !.disposed = TRUE, !.arrays[o.logs] = <<>>]
        noted == logEvent(marked, Entry("dispose called", ""))
    IN IF o.subscription # NoSubscription
       THEN logEvent(cancel(noted, o.subscription), Entry("subscription unsubscribed", ""))
       ELSE noted
dispose(o) ==
    LET marked == [Begin(o) EXCEPT !.disposed = TRUE]
        noted == logEvent(marked, Entry("dispose called", ""))
    IN IF o.subscription # NoSubscription
       THEN logEvent(cancel(noted, o.subscription), Entry("subscription unsubscribed", ""))
       ELSE noted

hasSubscription(o) == [Begin(o) EXCEPT !.returned = Boolean(o.subscription # NoSubscription)]
isDisposed(o) == [Begin(o) EXCEPT !.returned = Boolean(o.disposed)]

TestObserver_next_forwardFirst(o, value) ==
    LET sent == forward(Begin(o), "next", value)
    IN IF sent.thrown # NoError THEN sent
       ELSE logEvent(sent, Entry("next: ", String(value)))
TestObserver_next(o, value) ==
    forward(logEvent(Begin(o), Entry("next: ", String(value))), "next", value)
TestObserver_error(o, err) ==
    forward(logEvent(Begin(o), Entry("error: ", String(err))), "error", err)
TestObserver_complete(o) ==
    forward(logEvent(Begin(o), Entry("complete", "")), "complete", "")
onSuccess(o, value) ==
    forward(logEvent(Begin(o), Entry("onSuccess: ", String(value))), "onSuccess", value)

\* onSubscribe(subscription) with the Subscription h
onSubscribe_rebinding(o, h) ==
    LET set == [Begin(o) EXCEPT !.subscription = h]
    IN forward(logEvent(set, Entry("onSubscribe: subscription set", "")),
               "onSubscribe", ToString(h))
onSubscribe(o, h) ==
    IF o.subscription # NoSubscription
    THEN [Begin(o) EXCEPT !.thrown = Error("Subscription already set.", 0, 0)]
    ELSE LET set == [Begin(o) EXCEPT !.subscription = h]
         IN forward(logEvent(set, Entry("onSubscribe: subscription set", "")),
                    "onSubscribe", ToString(h))

\* The producers subscribed to: one that never emits, and of(1), which emits
\* 1 and completes inside subscribe().
Observables == {"NEVER", "of(1)"}
Emissions(observable) ==
    IF observable = "of(1)"
    THEN <<[kind |-> "next", arg |-> "1"], [kind |-> "complete", arg |-> ""]>>
    ELSE <<>>

notify(o, c) ==
    CASE c.kind = "next" -> TestObserver_next(o, c.arg)
      [] c.kind = "error" -> TestObserver_error(o, c.arg)
      [] c.kind = "complete" -> TestObserver_complete(o)

\* The notifications a producer makes inside subscribe(), through the three
\* arrow functions; what a handler throws there is reported by the library
\* later and does not leave subscribe().
RECURSIVE emit(_, _)
emit(o, cs) ==
    IF cs = <<>> THEN o
    ELSE emit([notify(o, Head(cs)) EXCEPT !.thrown = NoError], Tail(cs))

\* observable.subscribe({...}): a new Subscription, closed on return if the
\* producer has terminated
subscribe(o, observable) ==
    LET h == Len(o.subscriptions) + 1
        created == [o EXCEPT !.subscriptions = Append(@, OpenSubscription)]
        emitted == emit(created, Emissions(observable))
        ended == \E i \in 1..Len(Emissions(observable)) : IsTerminal(Emissions(observable)[i])
    IN [emitted EXCEPT !.subscriptions[h].closed = ended]

subscribeTo(o, observable) ==
    LET h == Len(o.subscriptions) + 1
        bound == onSubscribe(subscribe(Begin(o), observable), h)
    IN IF bound.thrown # NoError THEN bound
       ELSE [bound EXCEPT !.returned = SubscriptionRef(h)]

\* What a caller holding the array a does to it: push an entry, set its
\* length to 0, assign its first element.
Forged == Entry("forged", "")
Mutations == {"push", "truncate", "overwrite"}
mutate(o, a, how) ==
    [o EXCEPT !.arrays[a] =
        CASE how = "push" -> Append(@, Forged)
          [] how = "truncate" -> <<>>
          [] how = "overwrite" -> IF @ = <<>> THEN <<Forged>> ELSE [@ EXCEPT ![1] = Forged]]

\* ---------------------------------------------------------------- log operator
TapCallbacks ==
    {"All", "Next", "Complete", "Error", "Subscribe", "Unsubscribe", "Finalize", "None"}

\* let activeSubscriptions = 0; let subscriberIdCounter = 0;
\* const subscriberRegistry = new Map()
Loaded ==
    [activeSubscriptions |-> 0,
     subscriberIdCounter |-> 0,
     subscriberRegistry |-> <<>>]

\* Map.set, Map.delete, Map.size; a Map is a function on its keys
MapSet(map, key, value) ==
    [k \in DOMAIN map \cup {key} |-> IF k = key THEN value ELSE map[k]]
MapDelete(map, key) == [k \in DOMAIN map \ {key} |-> map[k]]
MapSize(map) == Cardinality(DOMAIN map)

\* The function given to subscription.add(): what runs when the subscription
\* of subscriber id ends, by unsubscribe(), completion or error.
teardown(g, id) ==
    [g EXCEPT !.subscriberRegistry = MapDelete(@, id),
              !.activeSubscriptions = @ - 1]

\* The function given to new Observable(...), run for each subscription to
\* source.pipe(log(label, callbacks)), at time t.  A source that has ended
\* inside source.subscribe() returns a closed subscription, and add() on a
\* closed subscription runs the function at once.
onSubscription(g, callbacks, source, t) ==
    LET subscriberId == g.subscriberIdCounter + 1
        registered == [g EXCEPT !.subscriberIdCounter = subscriberId,
                                !.subscriberRegistry =
                                    MapSet(@, subscriberId, [startTime |-> t])]
        counted == IF callbacks \in {"Subscribe", "All"}
                   THEN [registered EXCEPT !.activeSubscriptions = @ + 1]
                   ELSE registered
        ended == \E i \in 1..Len(Emissions(source)) : IsTerminal(Emissions(source)[i])
    IN [globals |-> IF ended THEN teardown(counted, subscriberId) ELSE counted,
        subscription |-> [subscriberId |-> subscriberId, callbacks |-> callbacks,
                          closed |-> ended]]

\* ---------------------------------------------------------------- ghosts
TerminalInHistory == \E i \in 1..Len(history) : IsTerminal(history[i])

\* what each pending wait has seen: a terminal notification before its timer
\* fired, a reset/unsubscribe while it was pending
NoteTerminal(ws) ==
    [i \in 1..Len(ws) |->
        IF ws[i].timer = "armed" THEN [ws[i] EXCEPT !.terminalBeforeTimeout = TRUE]
        ELSE ws[i]]
NoteReset(ws) ==
    [i \in 1..Len(ws) |->
        IF ws[i].status = "pending" /\ ws[i].timer = "armed"
        THEN [ws[i] EXCEPT !.resetWhilePending = TRUE]
        ELSE ws[i]]

\* ---------------------------------------------------------------- actions
\* a TestSubscriber constructed with one of the delegates and limits
ConstructedWith(delegates, limits) ==
    /\ \E d \in delegates, L \in limits : sub = New(d, L, <<>>)
    /\ fresh = sub
    /\ waiters = <<>>
    /\ now = 0
    /\ calls = 0
    /\ lastCall = Called("constructor", <<>>)
    /\ history = <<>>
    /\ mark = 0

\* a TestObserver created with one of the delegates
Created(delegates) ==
    /\ \E d \in delegates : obs = create(d)
    /\ view = NoArray
    /\ logged = <<>>
    /\ lastObserverCall = Called("create", <<>>)

\* the operator's module loaded, nothing subscribed through it
Imported == globals = Loaded /\ piped = <<>>

Constructed(limits) ==
    ConstructedWith(Delegates, limits) /\ Created({"undefined"}) /\ Imported

Init == Constructed(Limits)

CallNext(v) ==
    /\ calls < MaxCalls
    /\ sub' = next(sub, v, now)
    /\ fresh' = next(fresh, v, now)
    /\ history' = Append(history, Call("next", v))
    /\ calls' = calls + 1
    /\ lastCall' = Called("next", <<v>>)
    /\ UNCHANGED <<waiters, now, mark>>
    /\ UNCHANGED observerVars
    /\ UNCHANGED operatorVars

CallError(e) ==
    /\ calls < MaxCalls
    /\ sub' = error(sub, e, now)
    /\ fresh' = error(fresh, e, now)
    /\ history' = Append(history, Call("error", e))
    /\ waiters' = NoteTerminal(waiters)
    /\ calls' = calls + 1
    /\ lastCall' = Called("error", <<e>>)
    /\ UNCHANGED <<now, mark>>
    /\ UNCHANGED observerVars
    /\ UNCHANGED operatorVars

CallComplete ==
    /\ calls < MaxCalls
    /\ sub' = complete(sub, now)
    /\ fresh' = complete(fresh, now)
    /\ history' = Append(history, Call("complete", ""))
    /\ waiters' = NoteTerminal(waiters)
    /\ calls' = calls + 1
    /\ lastCall' = Called("complete", <<>>)
    /\ UNCHANGED <<now, mark>>
    /\ UNCHANGED observerVars
    /\ UNCHANGED operatorVars

CallReset ==
    /\ calls < MaxCalls
    /\ sub' = reset(sub)
    /\ fresh' = New(sub.delegate, sub.initialRequest, sub.delegateCalls)
    /\ history' = <<>>
    /\ mark' = Len(sub.delegateCalls)
    /\ waiters' = NoteReset(waiters)
    /\ calls' = calls + 1
    /\ lastCall' = Called("reset", <<>>)
    /\ UNCHANGED now
    /\ UNCHANGED observerVars
    /\ UNCHANGED operatorVars

CallUnsubscribe ==
    /\ calls < MaxCalls
    /\ sub' = unsubscribe(sub)
    /\ fresh' = New(sub.delegate, sub.initialRequest, sub.delegateCalls)
    /\ history' = <<>>
    /\ mark' = Len(sub.delegateCalls)
    /\ waiters' = NoteReset(waiters)
    /\ calls' = calls + 1
    /\ lastCall' = Called("unsubscribe", <<>>)
    /\ UNCHANGED now
    /\ UNCHANGED observerVars
    /\ UNCHANGED operatorVars

CallAssertCompleted ==
    /\ sub' = assertCompleted(sub)
    /\ lastCall' = Called("assertCompleted", <<>>)
    /\ UNCHANGED <<waiters, now, calls, history, mark, fresh>>
    /\ UNCHANGED observerVars
    /\ UNCHANGED operatorVars

CallAssertNoErrors ==
    /\ sub' = assertNoErrors(sub)
    /\ lastCall' = Called("assertNoErrors", <<>>)
    /\ UNCHANGED <<waiters, now, calls, history, mark, fresh>>
    /\ UNCHANGED observerVars
    /\ UNCHANGED operatorVars

ExpectedLists == UNION {[1..n -> ExpectedValues] : n \in 0..MaxLimit}

CallAssertValues(expected) ==
    /\ sub' = assertValues(sub, expected)
    /\ lastCall' = Called("assertValues", expected)
    /\ UNCHANGED <<waiters, now, calls, history, mark, fresh>>
    /\ UNCHANGED observerVars
    /\ UNCHANGED operatorVars

Finished(w) == w.status # "pending" /\ w.timer = "fired"

CallAwaitTerminalEvent(timeoutMs) ==
    /\ \A i \in 1..Len(waiters) : Finished(waiters[i])
    /\ LET r == awaitTerminalEvent(Enter(sub), timeoutMs, now)
           ghost == [terminalAtCall |-> TerminalInHistory,
                     terminalBeforeTimeout |-> TerminalInHistory,
                     resetWhilePending |-> FALSE]
       IN /\ sub' = r.instance
          /\ waiters' = <<r.race @@ ghost>>
    /\ lastCall' = Called("awaitTerminalEvent", <<>>)
    /\ UNCHANGED <<now, calls, history, mark, fresh>>
    /\ UNCHANGED observerVars
    /\ UNCHANGED operatorVars

\* A microtask: the race settles with its promise.
Settle(i) ==
    /\ ReactionQueued(waiters[i])
    /\ waiters' = [waiters EXCEPT ![i].status = "fulfilled"]
    /\ UNCHANGED <<sub, now, calls, lastCall, history, mark, fresh>>
    /\ UNCHANGED observerVars
    /\ UNCHANGED operatorVars

\* A timer task; tasks start with the microtask queue empty.
TimerFires(i) ==
    /\ waiters[i].timer = "armed"
    /\ now >= waiters[i].deadline
    /\ ~MicrotasksPending
    /\ LET r == timeout(sub, waiters[i])
       IN /\ sub' = r.instance
          /\ waiters' = [waiters EXCEPT ![i] = r.race]
    /\ UNCHANGED <<now, calls, lastCall, history, mark, fresh>>
    /\ UNCHANGED observerVars
    /\ UNCHANGED operatorVars

Tick ==
    /\ now < MaxTime
    /\ now' = now + 1
    /\ UNCHANGED <<sub, waiters, calls, lastCall, history, mark, fresh>>
    /\ UNCHANGED observerVars
    /\ UNCHANGED operatorVars

\* ---------------------------------------------------------------- actions on the TestObserver
\* One call on obs with its result: the entries it appended are noted.
Observe(result, op, args) ==
    /\ obs' = result
    /\ logged' = logged \o SubSeq(Logs(result), Len(Logs(obs)) + 1, Len(Logs(result)))
    /\ lastObserverCall' = Called(op, args)
    /\ UNCHANGED subscriberVars
    /\ UNCHANGED operatorVars

Counted == calls < MaxCalls /\ calls' = calls + 1

CallObserverNext(v) ==
    /\ Counted
    /\ Observe(TestObserver_next(obs, v), "next", <<v>>)
    /\ UNCHANGED view

CallObserverError(e) ==
    /\ Counted
    /\ Observe(TestObserver_error(obs, e), "error", <<e>>)
    /\ UNCHANGED view

CallObserverComplete ==
    /\ Counted
    /\ Observe(TestObserver_complete(obs), "complete", <<>>)
    /\ UNCHANGED view

CallOnSuccess(v) ==
    /\ Counted
    /\ Observe(onSuccess(obs, v), "onSuccess", <<v>>)
    /\ UNCHANGED view

\* onSubscribe(s) with a Subscription s the caller has made for it, or with
\* one handed over before
CallOnSubscribe(h) ==
    /\ Counted
    /\ LET given == IF h > Len(obs.subscriptions)
                    THEN [obs EXCEPT !.subscriptions = Append(@, OpenSubscription)]
                    ELSE obs
       IN Observe(onSubscribe(given, h), "onSubscribe", <<ToString(h)>>)
    /\ UNCHANGED view

CallSubscribeTo(observable) ==
    /\ Counted
    /\ Observe(subscribeTo(obs, observable), "subscribeTo", <<observable>>)
    /\ UNCHANGED view

CallDispose ==
    /\ Counted
    /\ Observe(dispose(obs), "dispose", <<>>)
    /\ UNCHANGED view

CallAssertSubscribed ==
    /\ Observe(assertSubscribed(obs), "assertSubscribed", <<>>)
    /\ UNCHANGED <<calls, view>>

CallHasSubscription ==
    /\ Observe(hasSubscription(obs), "hasSubscription", <<>>)
    /\ UNCHANGED <<calls, view>>

CallIsDisposed ==
    /\ Observe(isDisposed(obs), "isDisposed", <<>>)
    /\ UNCHANGED <<calls, view>>

\* const kept = observer.getLogs()
CallGetLogs ==
    /\ Observe(getLogs(obs), "getLogs", <<>>)
    /\ view' = obs'.returned.ref
    /\ UNCHANGED calls

\* kept.push(x), kept.length = 0, kept[0] = x
CallerMutates(how) ==
    /\ view # NoArray
    /\ Counted
    /\ obs' = mutate(obs, view, how)
    /\ UNCHANGED <<view, logged, lastObserverCall>>
    /\ UNCHANGED subscriberVars
    /\ UNCHANGED operatorVars

ObserverNotify ==
    \/ \E v \in ObservedValues : CallObserverNext(v)
    \/ \E e \in Causes : CallObserverError(e)
    \/ CallObserverComplete
    \/ \E v \in ObservedValues : CallOnSuccess(v)

ObserverBind ==
    \/ \E h \in 1..(Len(obs.subscriptions) + 1) : CallOnSubscribe(h)
    \/ \E observable \in Observables : CallSubscribeTo(observable)
    \/ CallDispose

ObserverQueries ==
    \/ CallAssertSubscribed
    \/ CallHasSubscription
    \/ CallIsDisposed
    \/ CallGetLogs

\* ---------------------------------------------------------------- actions on log pipelines
\* source.pipe(log(label, callbacks)).subscribe(...)
SubscribeThrough(callbacks, source) ==
    /\ Counted
    /\ LET r == onSubscription(globals, callbacks, source, now)
       IN /\ globals' = r.globals
          /\ piped' = Append(piped, r.subscription)
    /\ UNCHANGED subscriberVars
    /\ UNCHANGED observerVars

\* the live subscription i ends: its subscriber unsubscribes, or its source
\* completes or fails
Ends(i) ==
    /\ ~piped[i].closed
    /\ globals' = teardown(globals, piped[i].subscriberId)
    /\ piped' = [piped EXCEPT ![i].closed = TRUE]
    /\ UNCHANGED calls
    /\ UNCHANGED subscriberVars
    /\ UNCHANGED observerVars

NextLog ==
    \/ \E callbacks \in TapCallbacks, source \in Observables :
           SubscribeThrough(callbacks, source)
    \/ \E i \in 1..Len(piped) : Ends(i)

Notify ==
    \/ \E v \in Values : CallNext(v)
    \/ \E e \in Causes : CallError(e)
    \/ CallComplete
    \/ CallReset
    \/ CallUnsubscribe

Assertions ==
    \/ CallAssertCompleted
    \/ CallAssertNoErrors
    \/ \E expected \in ExpectedLists : CallAssertValues(expected)

Await ==
    \/ \E timeoutMs \in 0..MaxTimeout : CallAwaitTerminalEvent(timeoutMs)
    \/ \E i \in 1..Len(waiters) : Settle(i)
    \/ \E i \in 1..Len(waiters) : TimerFires(i)
    \/ Tick

\* The recording side: notifications, resets and assertions.
Next == Notify \/ Assertions
Spec == Init /\ [][Next]_vars

\* The waiting side: notifications, resets, waits, timers and the clock, on a
\* subscriber that takes no value (limit 0) or every value (no limit).
InitAwait == Constructed({Num(0), POSITIVE_INFINITY})
NextAwait == Notify \/ Await
SpecAwait == InitAwait /\ [][NextAwait]_vars

\* The TestObserver alone: every method of it, in any order.
InitObserver ==
    /\ ConstructedWith({"undefined"}, {POSITIVE_INFINITY})
    /\ Created(ObserverDelegates)
    /\ Imported
NextObserver == ObserverNotify \/ ObserverBind \/ ObserverQueries
SpecObserver == InitObserver /\ [][NextObserver]_vars

\* The same with a caller that writes to the array getLogs() gave it.
NextCaller == NextObserver \/ \E how \in Mutations : CallerMutates(how)
SpecCaller == InitObserver /\ [][NextCaller]_vars

\* Both consumers side by side, each notified, bound and disposed of in any
\* order.
InitLifetime ==
    /\ ConstructedWith(Delegates, {POSITIVE_INFINITY})
    /\ Created(ObserverDelegates)
    /\ Imported
NextLifetime == Notify \/ ObserverNotify \/ ObserverBind
SpecLifetime == InitLifetime /\ [][NextLifetime]_vars

\* The same calls on a subscriber constructed without a limit (the parameter's
\* default) or with a number that is no count.
InitLimits == Constructed({POSITIVE_INFINITY} \cup InvalidLimits)
SpecLimits == InitLimits /\ [][Next]_vars

\* The log operator: subscriptions through pipelines of any callbacks setting,
\* ended in any order.
InitLog == Constructed({POSITIVE_INFINITY})
SpecLog == InitLog /\ [][NextLog]_vars

\* The comparing side: notifications and resets, and assertValues called with
\* lists that may hold null as well.
ComparedValues == Values \cup {"null"}
ComparedLists == UNION {[1..n -> ComparedValues] : n \in 0..MaxLimit}
NextCompare == Notify \/ \E expected \in ComparedLists : CallAssertValues(expected)
SpecCompare == Init /\ [][NextCompare]_vars

\* ---------------------------------------------------------------- what the claims speak of
Min(a, b) == IF a < b THEN a ELSE b
Last(seq) == seq[Len(seq)]
Args(cs) == [i \in 1..Len(cs) |-> cs[i].arg]
IsNextCall(c) == c.kind = "next"
IsErrorCall(c) == c.kind = "error"
IsCompleteCall(c) == c.kind = "complete"

\* the values / causes / completions delivered since the last reset or unsubscribe
Delivered == Args(SelectSeq(history, IsNextCall))
DeliveredErrors == Args(SelectSeq(history, IsErrorCall))
DeliveredCompletions == Len(SelectSeq(history, IsCompleteCall))

\* what the delegate has been sent since the last reset or unsubscribe
ForwardedSince(s, k) == SubSeq(s.delegateCalls, k + 1, Len(s.delegateCalls))
ForwardedValues == Args(SelectSeq(ForwardedSince(sub, mark), IsNextCall))

Resolved(s) == s.promises[s.terminalEventPromise] = "fulfilled"

\* the recorded state of an instance
Recorded(s) ==
    [values |-> s.onNextEvents,
     errors |-> s.errorEvents,
     completions |-> s.completions,
     terminal |-> s.terminalEventReceived,
     resolved |-> Resolved(s)]

\* a step that is one more next/error/complete call
NotificationStep == calls' = calls + 1 /\ Len(history') = Len(history) + 1

\* ---------------------------------------------------------------- C1
\* C1: with an integer demand limit L >= 0, the recorded values are the first
\* min(M, L) of the M values delivered through next() since the last reset or
\* unsubscribe, in order; the delegate (if any) has been sent exactly those, in
\* that order; so never more than L values are recorded.
C1_DemandLimit ==
    sub.initialRequest.kind = "int" /\ sub.initialRequest.n >= 0 =>
        LET L == sub.initialRequest.n
            kept == SubSeq(Delivered, 1, Min(Len(Delivered), L))
        IN /\ sub.onNextEvents = kept
           /\ sub.delegate # "undefined" => ForwardedValues = kept
           /\ sub.delegate = "undefined" => sub.delegateCalls = <<>>
           /\ Len(sub.onNextEvents) <= L

\* more values delivered than the limit allows, to a delegating subscriber
C1_Witness ==
    /\ sub.initialRequest.kind = "int"
    /\ sub.initialRequest.n >= 1
    /\ Len(Delivered) > sub.initialRequest.n
    /\ sub.delegate # "undefined"
    /\ Delivered[1] # Delivered[2]
    /\ Len(sub.onNextEvents) = sub.initialRequest.n

\* ---------------------------------------------------------------- C2
Apply(s, c, t) ==
    CASE c.kind = "next" -> next(s, c.arg, t)
      [] c.kind = "error" -> error(s, c.arg, t)
      [] c.kind = "complete" -> complete(s, t)

\* C2: when the delegate's handler throws, next/error/complete throws nothing
\* to its caller, and records what the same call records with a delegate that
\* does not throw.
C2_DelegateFailureIsolated ==
    [][NotificationStep /\ sub.delegate = "throwing observer" =>
        LET calm == Apply([sub EXCEPT !.delegate = "observer"], Last(history'), now)
        IN /\ sub'.thrown = NoError
           /\ Recorded(sub') = Recorded(calm)
           /\ sub'.delegateCalls = calm.delegateCalls]_vars

\* a throwing delegate has been sent a value and an error
C2_Witness ==
    /\ sub.delegate = "throwing observer"
    /\ \E i \in 1..Len(sub.delegateCalls) : IsNextCall(sub.delegateCalls[i])
    /\ \E i \in 1..Len(sub.delegateCalls) : IsErrorCall(sub.delegateCalls[i])
    /\ Len(sub.onNextEvents) = 1
    /\ Resolved(sub)

\* ---------------------------------------------------------------- C3
LimitExhausted(s) == ~LessThan(Len(s.onNextEvents), s.initialRequest)

\* C3: error(cause) and complete() are processed in every state, the limit
\* exhausted or not: error appends the cause, complete adds one to the
\* completion counter, and each sets the terminal flag, is sent to the delegate
\* if there is one, and leaves the termination promise resolved.
C3_TerminalAlwaysProcessed ==
    [][NotificationStep /\ IsTerminal(Last(history')) =>
        LET c == Last(history')
        IN /\ c.kind = "error" =>
                  /\ sub'.errorEvents = Append(sub.errorEvents, c.arg)
                  /\ sub'.completions = sub.completions
           /\ c.kind = "complete" =>
                  /\ sub'.completions = sub.completions + 1
                  /\ sub'.errorEvents = sub.errorEvents
           /\ sub'.onNextEvents = sub.onNextEvents
           /\ sub'.terminalEventReceived
           /\ sub'.delegateCalls = IF sub.delegate = "undefined" THEN sub.delegateCalls
                                   ELSE Append(sub.delegateCalls, c)
           /\ Resolved(sub')
           /\ sub'.thrown = NoError]_vars

\* an error and a completion recorded with the limit exhausted
C3_Witness ==
    /\ LimitExhausted(sub)
    /\ Len(history) >= 2
    /\ IsErrorCall(history[1])
    /\ IsCompleteCall(history[2])
    /\ Len(sub.errorEvents) = 1
    /\ sub.completions = 1
    /\ sub.delegate # "undefined"

\* ---------------------------------------------------------------- C4
\* C4: an awaitTerminalEvent(timeoutMs) called when an error or completion has
\* been recorded since the last reset/unsubscribe never fails with the timeout
\* error, whatever timeoutMs is and whenever the timer fires: by the time the
\* timer has fired the call has completed.
C4_AwaitAfterTerminal ==
    \A i \in 1..Len(waiters) :
        waiters[i].terminalAtCall =>
            /\ waiters[i].status # "rejected"
            /\ waiters[i].timer = "fired" => waiters[i].status = "fulfilled"

\* such a call, made with timeoutMs = 0, has completed and its timer has fired
C4_Witness ==
    \E i \in 1..Len(waiters) :
        /\ waiters[i].terminalAtCall
        /\ waiters[i].status = "fulfilled"
        /\ waiters[i].timer = "fired"
        /\ waiters[i].deadline = 0

\* ---------------------------------------------------------------- C5
\* the timer of wait i fires in this step
TimerStep(i) ==
    /\ Len(waiters') = Len(waiters)
    /\ waiters[i].timer = "armed"
    /\ waiters'[i].timer = "fired"

\* C5: when the timer of an awaitTerminalEvent fires and no error or completion
\* was recorded at the call or delivered since, the call fails with 'Timeout
\* waiting for terminal event'; the firing changes nothing that is recorded.
C5_TimeoutFails ==
    [][\A i \in 1..Len(waiters) : TimerStep(i) =>
          /\ ~waiters[i].terminalBeforeTimeout =>
                 /\ waiters'[i].status = "rejected"
                 /\ waiters'[i].reason = Error("Timeout waiting for terminal event", 0, 0)
          /\ Recorded(sub') = Recorded(sub)
          /\ sub'.lastEventTimestamp = sub.lastEventTimestamp]_vars

\* a wait has timed out on a subscriber that holds a value and no terminal event
C5_Witness ==
    \E i \in 1..Len(waiters) :
        /\ waiters[i].status = "rejected"
        /\ ~waiters[i].terminalBeforeTimeout
        /\ ~waiters[i].resetWhilePending
        /\ waiters[i].deadline > 0
        /\ Len(sub.onNextEvents) = 1
        /\ ~sub.terminalEventReceived

\* ---------------------------------------------------------------- C6
\* C6: a pending awaitTerminalEvent that sees a reset() or unsubscribe() and
\* then, before its timer fires, an error or completion, completes rather than
\* failing with the timeout error.
C6_ResetKeepsWait ==
    \A i \in 1..Len(waiters) :
        waiters[i].resetWhilePending /\ waiters[i].terminalBeforeTimeout =>
            waiters[i].status # "rejected"

\* ---------------------------------------------------------------- C7
\* everything of an instance that a caller or the delegate can observe
Observable(s) ==
    [recorded |-> Recorded(s),
     lastEventTimestamp |-> s.lastEventTimestamp,
     delegateCalls |-> s.delegateCalls,
     resolverLive |-> s.terminalEventResolver.fn = "resolve"]

\* C7: reset() leaves values and errors empty, the completion counter 0, the
\* terminal flag false and the last-event marker empty, with the delegate and
\* the limit as they were; from then on the instance records next/error/complete
\* as an instance newly constructed with that delegate and limit does.
C7_ResetLikeNew ==
    /\ lastCall.op = "reset" =>
           /\ sub.onNextEvents = <<>>
           /\ sub.errorEvents = <<>>
           /\ sub.completions = 0
           /\ ~sub.terminalEventReceived
           /\ sub.lastEventTimestamp = NoTimestamp
           /\ ~Resolved(sub)
    /\ sub.delegate = fresh.delegate
    /\ sub.initialRequest = fresh.initialRequest
    /\ Observable(sub) = Observable(fresh)

\* a terminated subscriber with its limit exhausted was reset and has recorded
\* a completion since
C7_Witness ==
    /\ Len(sub.promises) = 2
    /\ ~sub.isUnsubscribed
    /\ sub.promises[1] = "fulfilled"
    /\ LimitExhausted(sub)
    /\ mark > 0
    /\ lastCall.op = "complete"
    /\ sub.completions = 1

\* ---------------------------------------------------------------- C8
NextsThenComplete ==
    /\ history # <<>>
    /\ IsCompleteCall(Last(history))
    /\ \A i \in 1..(Len(history) - 1) : IsNextCall(history[i])

CompletionError(k) == Error("Expected exactly 1 completion event, but received", k, 0)

\* C9 as claimed: assertCompleted() throws for every history since the last
\* reset in which an error was delivered, or no completion, or more than one.
C9_FailsWheneverErrored ==
    lastCall.op = "assertCompleted" =>
        /\ DeliveredErrors # <<>> \/ DeliveredCompletions # 1 =>
               sub.thrown = CompletionError(sub.completions)
        /\ sub.thrown = NoError => DeliveredCompletions = 1

\* C9: assertCompleted() throws 'Expected exactly 1 completion event, but
\* received k' exactly when the number k of completions delivered since the last
\* reset is not 1, whether or not an error was delivered as well.
C9_FailsUnlessOneCompletion ==
    lastCall.op = "assertCompleted" =>
        sub.thrown = IF DeliveredCompletions = 1 THEN NoError
                     ELSE CompletionError(DeliveredCompletions)

\* assertCompleted() has returned on a subscriber that recorded an error and
\* then one completion
C9_Witness ==
    /\ lastCall.op = "assertCompleted"
    /\ DeliveredErrors # <<>>
    /\ DeliveredCompletions = 1
    /\ sub.thrown = NoError

\* ---------------------------------------------------------------- C10
AssertionOps == {"assertCompleted", "assertNoErrors", "assertValues"}
AssertionStep == lastCall'.op \in AssertionOps /\ calls' = calls /\ history' = history

\* C10: assertNoErrors() throws exactly when an error has been delivered since
\* the last reset/unsubscribe; an assertion that throws leaves the values, the
\* errors, the completion counter and the terminal flag as they were.
C10_AssertNoErrors ==
    [][AssertionStep =>
          /\ lastCall'.op = "assertNoErrors" =>
                 (sub'.thrown # NoError <=> DeliveredErrors # <<>>)
          /\ sub'.thrown # NoError =>
                 /\ Observable(sub') = Observable(sub)
                 /\ sub'.thrown.message \in
                        {"Expected exactly 1 completion event, but received",
                         "Expected no errors, but received",
                         "Expected values, but received",
                         "Value mismatch at index"}]_vars

\* assertNoErrors() has thrown on a subscriber holding one value and one error
C10_Witness ==
    /\ lastCall.op = "assertNoErrors"
    /\ sub.thrown = Error("Expected no errors, but received", 1, 0)
    /\ Len(sub.errorEvents) = 1
    /\ Len(sub.onNextEvents) = 1

\* ---------------------------------------------------------------- C11
\* the least index (from 0) at which two sequences of one length differ
FirstDifference(a, b) ==
    LET differ == {i \in 1..Len(a) : a[i] # b[i]}
    IN (CHOOSE i \in differ : \A j \in differ : i <= j) - 1

\* C11: assertValues(expected...) returns exactly when the recorded values
\* have the length of expected and equal it element by element, in order; with
\* equal lengths and some element different it throws 'Value mismatch at index
\* i' for the least index i at which the two differ.
C11_AssertValuesIffEqual ==
    lastCall.op = "assertValues" =>
        LET expected == lastCall.args
            recorded == sub.onNextEvents
        IN /\ sub.thrown = NoError <=> recorded = expected
           /\ Len(recorded) = Len(expected) /\ recorded # expected =>
                  sub.thrown = Error("Value mismatch at index",
                                     FirstDifference(recorded, expected), 0)

\* ---------------------------------------------------------------- C14
\* a step that is one unsubscribe() call
UnsubscribeStep == lastCall'.op = "unsubscribe" /\ calls' = calls + 1

\* C14: unsubscribe(), from every state, marks the subscriber unsubscribed and
\* leaves what reset() leaves: no values, no errors, completion counter 0,
\* terminal flag false, and a termination promise that is new and pending, with
\* its resolver live; delegate, limit and what the delegate was sent stay.
C14_UnsubscribeClears ==
    [][UnsubscribeStep =>
          /\ sub'.isUnsubscribed
          /\ sub'.onNextEvents = <<>>
          /\ sub'.errorEvents = <<>>
          /\ sub'.completions = 0
          /\ ~sub'.terminalEventReceived
          /\ sub'.lastEventTimestamp = NoTimestamp
          /\ sub'.terminalEventPromise = Len(sub.promises) + 1
          /\ sub'.promises = Append(sub.promises, "pending")
          /\ sub'.terminalEventResolver = Resolve(sub'.terminalEventPromise)
          /\ sub'.delegate = sub.delegate
          /\ sub'.initialRequest = sub.initialRequest
          /\ sub'.delegateCalls = sub.delegateCalls
          /\ sub'.thrown = NoError]_vars

\* a subscriber that held a value and a completion, both sent on to its
\* delegate, has been unsubscribed
C14_Witness ==
    /\ lastCall.op = "unsubscribe"
    /\ sub.isUnsubscribed
    /\ Len(sub.promises) = 2
    /\ sub.promises[1] = "fulfilled"
    /\ Len(sub.delegateCalls) = 2
    /\ sub.onNextEvents = <<>>

\* ---------------------------------------------------------------- C17
\* C17: in every state the terminal flag is true exactly when an error or a
\* completion has been delivered, and so recorded, since the last reset or
\* unsubscribe; no next/error/complete or assertion call takes it from true to
\* false, only reset() and unsubscribe() do, and they always leave it false.
C17_ActiveThenTerminated ==
    /\ [](/\ sub.terminalEventReceived <=> TerminalInHistory
          /\ sub.terminalEventReceived <=>
                 (sub.errorEvents # <<>> \/ sub.completions > 0))
    /\ [][/\ sub.terminalEventReceived /\ ~sub'.terminalEventReceived =>
                 lastCall'.op \in {"reset", "unsubscribe"}
          /\ lastCall'.op \in {"reset", "unsubscribe"} /\ calls' = calls + 1 =>
                 ~sub'.terminalEventReceived]_vars

\* a subscriber terminated by an error has since been given a value and a
\* completion and has run an assertion, and is still terminated
C17_Witness ==
    /\ sub.terminalEventReceived
    /\ Len(history) = 3
    /\ IsErrorCall(history[1])
    /\ IsNextCall(history[2])
    /\ IsCompleteCall(history[3])
    /\ lastCall.op \in AssertionOps

\* ---------------------------------------------------------------- C19
\* C19: a next(value) that arrives after an error or completion has been
\* recorded, and before any reset, throws nothing and is ignored: the recorded
\* values stay as they are and the delegate is sent nothing.
C19_ValueAfterTerminalIgnored ==
    [][NotificationStep /\ IsNextCall(Last(history')) /\ sub.terminalEventReceived =>
          /\ sub'.thrown = NoError
          /\ sub'.onNextEvents = sub.onNextEvents
          /\ sub'.delegateCalls = sub.delegateCalls]_vars

\* ---------------------------------------------------------------- C20
\* C20: a subscriber constructed with no limit, or with a limit that is no
\* count (negative, NaN), takes every value: the recorded values are all the
\* values delivered through next() since the last reset or unsubscribe, and the
\* delegate, if any, has been sent all of them.
C20_InvalidMeansUnlimited ==
    sub.initialRequest \in {POSITIVE_INFINITY} \cup InvalidLimits =>
        /\ sub.onNextEvents = Delivered
        /\ sub.delegate # "undefined" => ForwardedValues = Delivered

\* ---------------------------------------------------------------- C12
\* a step that is one onSubscribe or subscribeTo call
BindStep ==
    /\ lastObserverCall'.op \in {"onSubscribe", "subscribeTo"}
    /\ calls' = calls + 1

\* the Subscription a bind call hands to the observer
Offered ==
    IF lastObserverCall'.op = "subscribeTo" THEN Len(obs.subscriptions) + 1
    ELSE CHOOSE h \in 1..Len(obs'.subscriptions) : lastObserverCall'.args = <<ToString(h)>>

DisposeStep == lastObserverCall'.op = "dispose" /\ calls' = calls + 1
IsPrefix(a, b) == Len(a) <= Len(b) /\ SubSeq(b, 1, Len(a)) = a

\* C13: dispose(), in every state, sets disposed; calls unsubscribe() on the
\* held Subscription if one is held, and with none held touches no Subscription
\* and throws nothing; it only appends to the log ('dispose called', then
\* 'subscription unsubscribed' if one was held), every earlier entry staying in
\* its place; and the held Subscription stays the held one.
C13_DisposeKeepsHistory ==
    [][DisposeStep =>
          LET h == obs.subscription
              held == h # NoSubscription
          IN /\ obs'.disposed
             /\ held => obs'.subscriptions =
                            [obs.subscriptions EXCEPT ![h] =
                                [closed |-> TRUE, unsubscribed |-> @.unsubscribed + 1]]
             /\ ~held => obs'.subscriptions = obs.subscriptions /\ obs'.thrown = NoError
             /\ IsPrefix(Logs(obs), Logs(obs'))
             /\ Logs(obs') = Logs(obs) \o
                    (IF held THEN <<Entry("dispose called", ""),
                                    Entry("subscription unsubscribed", "")>>
                     ELSE <<Entry("dispose called", "")>>)
             /\ obs'.subscription = h
             /\ obs'.delegateCalls = obs.delegateCalls]_vars

\* an observer subscribed to of(1), whose log held three entries, has been
\* disposed
C13_Witness ==
    /\ lastObserverCall.op = "dispose"
    /\ obs.disposed
    /\ obs.subscription = 1
    /\ obs.subscriptions[1].unsubscribed = 1
    /\ Len(Logs(obs)) = 5
    /\ Logs(obs)[1] = Entry("next: ", "1")

\* ---------------------------------------------------------------- C15
\* C15: whatever a caller does to a value that getLogs() returned (push,
\* truncate, overwrite), the observer's own log stays the full ordered log of
\* the entries its calls have appended, and that is what a later getLogs()
\* gives.
C15_LogsProtected == Logs(obs) = logged

\* ---------------------------------------------------------------- C16
NotificationOps == {"next", "error", "complete", "onSuccess"}
ObserverNotificationStep ==
    /\ lastObserverCall'.op \in NotificationOps
    /\ calls' = calls + 1

\* the log entry that belongs to a call
EntryOf(c) ==
    CASE c.op = "next" -> Entry("next: ", String(c.args[1]))
      [] c.op = "error" -> Entry("error: ", String(c.args[1]))
      [] c.op = "complete" -> Entry("complete", "")
      [] c.op = "onSuccess" -> Entry("onSuccess: ", String(c.args[1]))

\* C16: each next/error/complete/onSuccess call on a TestObserver appends one
\* entry, of its kind, to the end of the log, also when the delegate's handler
\* throws (the exception then leaves the call); the delegate is sent the call
\* if it defines the handler; and in every step of every method the log before
\* is a prefix of the log after.
C16_AppendOnlyLog ==
    [][/\ ObserverNotificationStep =>
              LET c == lastObserverCall'
                  arg == IF c.args = <<>> THEN "" ELSE c.args[1]
              IN /\ Logs(obs') = Append(Logs(obs), EntryOf(c))
                 /\ obs'.delegateCalls =
                        IF c.op \in Handlers(obs.delegate)
                        THEN Append(obs.delegateCalls, Call(c.op, arg))
                        ELSE obs.delegateCalls
                 /\ obs'.thrown =
                        IF c.op \in Handlers(obs.delegate) /\ obs.delegate = "throwing observer"
                        THEN DelegateError ELSE NoError
       /\ IsPrefix(Logs(obs), Logs(obs'))]_vars

\* a value, an error and a success have each been logged and sent to a
\* delegate whose handlers throw; the last call threw
C16_Witness ==
    /\ obs.delegate = "throwing observer"
    /\ obs.thrown = DelegateError
    /\ lastObserverCall.op = "onSuccess"
    /\ Len(Logs(obs)) = 3
    /\ Logs(obs)[1].text = "next: "
    /\ Logs(obs)[2].text = "error: "
    /\ Len(obs.delegateCalls) = 3

\* ---------------------------------------------------------------- C18
\* a next/error/complete call on obs, and one on sub
NotifiedObserver ==
    /\ lastObserverCall'.op \in {"next", "error", "complete"}
    /\ calls' = calls + 1
    /\ UNCHANGED subscriberVars
NotifiedSubscriber == NotificationStep /\ UNCHANGED observerVars

\* C18: a consumer records only while its subscription is active.  A next,
\* error or complete delivered to a TestObserver after dispose() leaves its log
\* as it is and is not sent to its delegate; one delivered to a TestSubscriber
\* after unsubscribe() leaves values, errors and completion counter as they are
\* and is not sent to its delegate.
C18_NothingAfterDisposal ==
    [][/\ NotifiedObserver /\ obs.disposed =>
              /\ Logs(obs') = Logs(obs)
              /\ obs'.delegateCalls = obs.delegateCalls
       /\ NotifiedSubscriber /\ sub.isUnsubscribed =>
              /\ sub'.onNextEvents = sub.onNextEvents
              /\ sub'.errorEvents = sub.errorEvents
              /\ sub'.completions = sub.completions
              /\ sub'.delegateCalls = sub.delegateCalls]_vars

\* ---------------------------------------------------------------- C21
\* the values the delegate has been sent since construction
AllForwardedValues == SelectSeq(sub.delegateCalls, IsNextCall)

\* C21 as claimed: with a limit L and a delegate, over next/error/complete/
\* reset calls on one instance the delegate is sent at most L values in all.
C21_LimitCeilingAcrossReset ==
    /\ sub.initialRequest.kind = "int"
    /\ sub.initialRequest.n >= 0
    /\ sub.delegate # "undefined"
    /\ ~sub.isUnsubscribed
    => Len(AllForwardedValues) <= sub.initialRequest.n

\* C21: with a limit L and a delegate, the delegate is sent at most L values
\* between one reset (or the construction) and the next; every reset starts
\* the count again, so after r resets it has been sent at most L * (r + 1).
C21_LimitCeilingPerReset ==
    sub.initialRequest.kind = "int" /\ sub.initialRequest.n >= 0
        /\ sub.delegate # "undefined" =>
        /\ Len(ForwardedValues) <= sub.initialRequest.n
        /\ Len(AllForwardedValues) <= sub.initialRequest.n * Len(sub.promises)

\* a subscriber with limit 1 has sent its delegate one value before a reset
\* and one after it
C21_Witness ==
    /\ sub.initialRequest = Num(1)
    /\ sub.delegate # "undefined"
    /\ ~sub.isUnsubscribed
    /\ Len(sub.promises) = 2
    /\ Len(AllForwardedValues) = 2
    /\ Len(ForwardedValues) = 1

\* ---------------------------------------------------------------- C22
\* C22: in every state the current termination promise is resolved exactly
\* when the terminal flag is true.  The resolve function is held only while its
\* promise, the current one, is pending, and the first terminal notification
\* replaces it by the no-op, so no promise has its resolve function called
\* twice, whatever terminal notifications follow.  After reset() or
\* unsubscribe() the current promise is a new pending one with its resolve
\* function held.
C22_SingleResolution ==
    /\ Resolved(sub) <=> sub.terminalEventReceived
    /\ sub.terminalEventPromise = Len(sub.promises)
    /\ sub.terminalEventResolver =
           IF sub.terminalEventReceived THEN Noop ELSE Resolve(sub.terminalEventPromise)
    /\ lastCall.op \in {"reset", "unsubscribe"} =>
           /\ ~Resolved(sub)
           /\ sub.terminalEventResolver = Resolve(Len(sub.promises))
           /\ Len(sub.promises) >= 2

\* after a reset, an error and then a completion have arrived: the second
\* promise is resolved, the resolve function gone, the first promise as it was
C22_Witness ==
    /\ Len(history) = 2
    /\ IsErrorCall(history[1])
    /\ IsCompleteCall(history[2])
    /\ sub.promises = <<"pending", "fulfilled">>
    /\ sub.terminalEventResolver = Noop
    /\ sub.completions = 1

\* ---------------------------------------------------------------- C23
\* C23: in every state of a TestObserver, whatever the order of dispose(),
\* onSubscribe and subscribeTo: if it is disposed and holds a Subscription,
\* unsubscribe() has been called on that Subscription.
C23_DisposedMeansCancelled ==
    obs.disposed /\ obs.subscription # NoSubscription =>
        obs.subscriptions[obs.subscription].unsubscribed >= 1

\* ---------------------------------------------------------------- C24
\* a subscribeTo call on an observer that holds a Subscription
RejectedSubscribeTo ==
    /\ lastObserverCall'.op = "subscribeTo"
    /\ calls' = calls + 1
    /\ obs.subscription # NoSubscription

\* C24: subscribeTo(producer) on a TestObserver that holds a Subscription
\* throws 'Subscription already set.' and changes nothing: no Subscription is
\* made with the producer, none is left open, nothing the producer emits is
\* logged or sent to the delegate, and the held Subscription stays.
C24_RejectedSubscribeToChangesNothing ==
    [][RejectedSubscribeTo =>
          /\ obs'.thrown = Error("Subscription already set.", 0, 0)
          /\ obs'.subscriptions = obs.subscriptions
          /\ Logs(obs') = Logs(obs)
          /\ obs'.delegateCalls = obs.delegateCalls
          /\ obs'.subscription = obs.subscription]_vars

\* ---------------------------------------------------------------- C25
Live == {i \in 1..Len(piped) : ~piped[i].closed}

\* C25: for every callbacks setting and every order of subscriptions and
\* unsubscriptions through the log operator, activeSubscriptions is never
\* negative and equals the number of live subscriptions, which is the number of
\* entries of subscriberRegistry.
C25_ActiveEqualsLive ==
    /\ globals.activeSubscriptions >= 0
    /\ globals.activeSubscriptions = Cardinality(Live)
    /\ globals.activeSubscriptions = MapSize(globals.subscriberRegistry)

====
